---- MODULE Spec2Model ----
(***************************************************************************)
(* Model of the FileVerificationSystem integrity ledger.                   *)
(*                                                                         *)
(* Part 1: the Express server of backend/src/server.js: the in-memory      *)
(* table fileRecords, the upload directory written by multer, the clock    *)
(* read by Date.now(), and the request handlers.  A handler that awaits    *)
(* calculateFileHash is split at the await: the request sits in a slot of  *)
(* inflight while its read stream is open, and other handlers run in       *)
(* between.  Everything between two awaits is one step (Node runs a        *)
(* handler to its next await without interleaving).                        *)
(*                                                                         *)
(* Part 2: the filter effect of src/components/AuditTrail.tsx, a pure      *)
(* function of (files, searchTerm), checked under SpecFilter; and the      *)
(* component loading its list from the server, under SpecAudit.            *)
(*                                                                         *)
(* Part 3: the contract blockchain/contracts/FileIntegrity.sol, under      *)
(* SpecChain.  A transaction is one step; a revert leaves storage as it    *)
(* was.                                                                    *)
(*                                                                         *)
(* Strings that reach a client (names, descriptions, ids, digests, search  *)
(* terms) are sequences of one-character strings, so that toLowerCase,     *)
(* includes and trim can be computed on them; operation names and error    *)
(* messages, which are only compared, are TLA+ strings.                    *)
(***************************************************************************)
EXTENDS Integers, Sequences, FiniteSets, Bags, TLC

VARIABLES
    now,          \* the value Date.now() returns
    disk,         \* ./uploads: path -> <<>> (no file) or <<content>>, for the
                  \* paths a suspended request has still to read or unlink
    fileRecords,  \* the Map fileRecords, as its values in insertion order
    inflight,     \* bag of the requests suspended at `await calculateFileHash`
    response,     \* the response sent by the latest step (NoResponse if none)
    uploadLog,    \* the successful upload responses sent so far, in order,
                  \* each with the bytes the client had submitted and the
                  \* number of uploads answered before the request arrived
    accepted,     \* number of file requests multer has accepted so far
    files,        \* AuditTrail state: files
    isLoading,    \* AuditTrail state: isLoading (a loadFiles call is pending)
    error,        \* AuditTrail state: error (<<>> for null)
    searchTerm,   \* AuditTrail state: searchTerm
    filteredFiles,\* AuditTrail state: filteredFiles
    listResponse, \* the answer to loadFiles' GET /api/files on its way to the
                  \* client: <<>> or <<[data, ledger]>>, ledger being
                  \* fileRecords as it was when the request was served
    loadedFrom,   \* <<>> or <<fileRecords as it was when the list now held
                  \* in files was served>>
    currentFileId,  \* FileIntegrity.currentFileId
    chainFiles,     \* FileIntegrity.files: id -> FileRecord, for the ids
                    \* written so far (any other id reads as the zero record)
    hashToFileId,   \* FileIntegrity.hashToFileId: hash -> id (0 by default)
    uploaderFiles,  \* FileIntegrity.uploaderFiles: address -> array of ids
    blockTimestamp, \* block.timestamp
    txResult,       \* the outcome of the latest contract call
    txLog,          \* the uploadFile transactions so far, in order, each
                    \* with its arguments, outcome and block timestamp
    account,        \* BlockchainConnection state: account (<<>> for null)
    isConnected,    \* BlockchainConnection state: isConnected
    isConnecting,   \* BlockchainConnection state: isConnecting
    networkInfo,    \* BlockchainConnection state: networkInfo (<<>> for null)
    walletError,    \* BlockchainConnection state: error (<<>> for null)
    walletCalls,    \* the checkConnection and connectWallet calls suspended
                    \* at an await: a set of [fn, pc]
    walletStarted,  \* number of connectWallet calls started so far
    selectedFile,   \* FileUpload state: selectedFile (<<>> for null)
    formDescription,\* FileUpload state: description
    isUploading,    \* FileUpload state: isUploading
    uploadResult,   \* FileUpload state: uploadResult (<<>> for null)
    uploadError,    \* FileUpload state: error (<<>> for null)
    activeStep,     \* FileUpload state: activeStep
    uploadCall,     \* the handleUpload call suspended at an await: <<>> or
                    \* <<[pc, file, description]>>, file and description
                    \* being the values its closure captured
    formStarted     \* number of handleUpload calls started so far

serverVars == <<now, disk, fileRecords, inflight, response, uploadLog,
                accepted>>
auditVars == <<files, isLoading, error, searchTerm, filteredFiles>>
netVars == <<listResponse, loadedFrom>>
chainVars == <<currentFileId, chainFiles, hashToFileId, uploaderFiles,
               blockTimestamp, txResult, txLog>>
walletVars == <<account, isConnected, isConnecting, networkInfo, walletError,
                walletCalls, walletStarted>>
formVars == <<selectedFile, formDescription, isUploading, uploadResult,
              uploadError, activeStep, uploadCall, formStarted>>
uiVars == <<walletVars, formVars>>
vars == <<now, disk, fileRecords, inflight, response, uploadLog, accepted,
          files, isLoading, error, searchTerm, filteredFiles,
          listResponse, loadedFrom,
          currentFileId, chainFiles, hashToFileId, uploaderFiles,
          blockTimestamp, txResult, txLog,
          account, isConnected, isConnecting, networkInfo, walletError,
          walletCalls, walletStarted,
          selectedFile, formDescription, isUploading, uploadResult,
          uploadError, activeStep, uploadCall, formStarted>>

----------------------------------------------------------------------------
(* Bounds *)

GenesisTime == 5   \* block.timestamp of the first block
MaxClock == 1      \* number of clock ticks after the start time
MaxUploads == 2    \* upload requests accepted by the model
MaxInFlight == 2   \* requests suspended at an await at the same time
MaxRequests == 3   \* file requests accepted by the model

StartTime == 98    \* first clock reading (ids 98, 99, 100, ... as strings)

Times == StartTime .. (StartTime + MaxClock)

\* File contents: byte sequences.
Contents == {<<1>>, <<2>>}
\* File names (file.originalname).
Names == {<<"a", ".", "t">>, <<"B", ".", "t">>}
\* The multipart forms clients submit: file.originalname, the file's bytes
\* and body.description ("" is the default of the upload handler).  Two
\* forms carry the same name with different bytes, two the same bytes under
\* different names.
ClientFiles ==
    { [name |-> <<"a", ".", "t">>, content |-> <<1>>, description |-> <<>>],
      [name |-> <<"a", ".", "t">>, content |-> <<2>>,
       description |-> <<"N", "d", "a">>],
      [name |-> <<"B", ".", "t">>, content |-> <<1>>,
       description |-> <<"N", "d", "a">>] }

Paths == Times \X Names

----------------------------------------------------------------------------
(* Helpers *)

\* crypto.createHash('sha256') ... update(data) ... digest('hex'):
\* a running state folded over the bytes, printed as hex digits.  SHA-256 is
\* replaced by a small fold that is collision-free on Contents.
RECURSIVE HashUpdate(_, _)
HashUpdate(h, data) ==
    IF data = <<>> THEN h
    ELSE HashUpdate((h * 31 + Head(data)) % 256, Tail(data))

HexDigits ==
    <<"0", "1", "2", "3", "4", "5", "6", "7",
      "8", "9", "a", "b", "c", "d", "e", "f">>

HashDigestHex(h) == <<HexDigits[(h \div 16) + 1], HexDigits[(h % 16) + 1]>>

Sha256Hex(data) == HashDigestHex(HashUpdate(7, data))

\* Number.prototype.toString(): the decimal digits, most significant first.
RECURSIVE toString(_)
toString(n) ==
    IF n < 10 THEN <<HexDigits[n + 1]>>
    ELSE toString(n \div 10) \o <<HexDigits[(n % 10) + 1]>>

\* multer filename callback: `${Date.now()}-${file.originalname}`.
MulterFilename(t, name) == <<t, name>>

\* simulateIPFSUpload: a value derived from filename + Date.now().
simulateIPFSUpload(filename, t) == <<"Qm", filename, t>>

\* A request leaves the bag of suspended requests / is replaced in it.
Remove(bag, r) == bag (-) SetToBag({r})
Replace(bag, r, q) == (bag (-) SetToBag({r})) (+) SetToBag({q})

\* The files on disk that a suspended request still refers to.  A file that
\* no suspended request refers to is never read again (a later request with
\* the same path overwrites it before reading), so it is not tracked.
Live(d, bag) ==
    [p \in Paths |->
        IF \E r \in BagToSet(bag) : r.filePath = p THEN d[p] ELSE <<>>]

NoResponse == [op |-> "none", status |-> 0]

\* Map.prototype.set: a new key is appended, an existing key keeps its
\* position and gets the new value.
MapSet(m, rec) ==
    IF \E i \in 1..Len(m) : m[i].id = rec.id
    THEN [i \in 1..Len(m) |-> IF m[i].id = rec.id THEN rec ELSE m[i]]
    ELSE Append(m, rec)

\* Map.prototype.get: <<>> for undefined, else <<value>>.
MapGet(m, id) ==
    IF \E i \in 1..Len(m) : m[i].id = id
    THEN <<m[CHOOSE i \in 1..Len(m) : m[i].id = id]>>
    ELSE <<>>

\* A search that returns the last record with the hash.
FindLastByHash(m, h) ==
    IF \E i \in 1..Len(m) : m[i].fileHash = h
    THEN <<m[CHOOSE i \in 1..Len(m) :
                /\ m[i].fileHash = h
                /\ \A j \in (i+1)..Len(m) : m[j].fileHash # h]>>
    ELSE <<>>

\* Array.from(fileRecords.values()).find(record => record.fileHash === h):
\* the first record in insertion order, <<>> for undefined.
FindByHash(m, h) ==
    IF \E i \in 1..Len(m) : m[i].fileHash = h
    THEN <<m[CHOOSE i \in 1..Len(m) :
                /\ m[i].fileHash = h
                /\ \A j \in 1..(i-1) : m[j].fileHash # h]>>
    ELSE <<>>

\* The summary sent by /api/upload, /api/files and /api/files/:id
\* (the record without filePath).
Summary(r) ==
    [id |-> r.id, originalName |-> r.originalName, fileHash |-> r.fileHash,
     ipfsHash |-> r.ipfsHash, description |-> r.description,
     uploadTime |-> r.uploadTime, size |-> r.size]

\* The metadata sent by /api/verify and /api/verify-hash on a match.
MatchData(r) ==
    [id |-> r.id, originalName |-> r.originalName, fileHash |-> r.fileHash,
     uploadTime |-> r.uploadTime, description |-> r.description]

RECURSIVE MapSeq(_, _)
MapSeq(s, i) ==
    IF i > Len(s) THEN <<>> ELSE <<Summary(s[i])>> \o MapSeq(s, i + 1)

----------------------------------------------------------------------------
(* Server *)

ServerInit ==
    /\ now = StartTime
    /\ disk = [p \in Paths |-> <<>>]
    /\ fileRecords = <<>>
    /\ inflight = EmptyBag
    /\ response = NoResponse
    /\ uploadLog = <<>>
    /\ accepted = 0

\* The AuditTrail component is not mounted.
AuditIdle ==
    /\ files = <<>>
    /\ isLoading = FALSE
    /\ error = <<>>
    /\ searchTerm = <<>>
    /\ filteredFiles = <<>>

\* No listing is on its way to a client.
NetIdle ==
    /\ listResponse = <<>>
    /\ loadedFrom = <<>>

\* The contract as deployed: every state variable has its zero value.
ChainInit ==
    /\ currentFileId = 0
    /\ chainFiles = <<>>
    /\ hashToFileId = [h \in {} |-> 0]
    /\ uploaderFiles = [a \in {} |-> <<>>]
    /\ blockTimestamp = GenesisTime
    /\ txResult = [op |-> "none", reverted |-> FALSE]
    /\ txLog = <<>>

\* The BlockchainConnection component is not mounted.
WalletIdle ==
    /\ account = <<>>
    /\ isConnected = FALSE
    /\ isConnecting = FALSE
    /\ networkInfo = <<>>
    /\ walletError = <<>>
    /\ walletCalls = {}
    /\ walletStarted = 0

\* The FileUpload component as useState initialises it; no upload started.
FormInit ==
    /\ selectedFile = <<>>
    /\ formDescription = <<>>
    /\ isUploading = FALSE
    /\ uploadResult = <<>>
    /\ uploadError = <<>>
    /\ activeStep = 0
    /\ uploadCall = <<>>
    /\ formStarted = 0

Init == ServerInit /\ AuditIdle /\ NetIdle /\ ChainInit /\ WalletIdle /\ FormInit

\* The clock advances.
Tick ==
    /\ now < StartTime + MaxClock
    /\ now' = now + 1
    /\ response' = NoResponse
    /\ UNCHANGED <<disk, fileRecords, inflight, uploadLog, accepted>>
    /\ UNCHANGED <<auditVars, netVars, chainVars, uiVars>>

\* Responses.  data is a sequence: <<>> when the body has no data field,
\* <<d>> for one object, the whole array for /api/files.
ErrorResponse(op, status, message) ==
    [op |-> op, status |-> status, error |-> message]

\* A request whose multipart body has no file part: multer leaves req.file
\* undefined and each of the three file handlers answers 400 at once.
NoFileRequest ==
    /\ \E op \in {"upload", "verify", "calculate-hash"} :
         response' = ErrorResponse(op, 400,
            CASE op = "upload" -> "No file uploaded"
              [] op = "verify" -> "No file provided for verification"
              [] op = "calculate-hash" -> "No file provided")
    /\ UNCHANGED <<now, disk, fileRecords, inflight, uploadLog, accepted>>
    /\ UNCHANGED <<auditVars, netVars, chainVars, uiVars>>

UploadsStarted ==
    Len(uploadLog)
      + BagCardinality([r \in {q \in BagToSet(inflight) : q.op = "upload"}
                          |-> inflight[r]])

\* A request with a file part arrives at /api/upload, /api/verify or
\* /api/calculate-hash.  multer writes the file to
\* ./uploads/<Date.now()>-<originalname>, then the handler runs up to
\* `await calculateFileHash(filePath)`, which opens a read stream.
FileRequest(op, f) ==
    /\ BagCardinality(inflight) < MaxInFlight
    /\ accepted < MaxRequests
    /\ op = "upload" => UploadsStarted < MaxUploads
    /\ LET path == MulterFilename(now, f.name)
           req == [op |-> op, content |-> f.content, originalName |-> f.name,
                   description |-> IF op = "upload" THEN f.description ELSE <<>>,
                   filePath |-> path, size |-> Len(f.content),
                   pc |-> "reading", hash |-> <<>>,
                   arrivedAfter |->
                       IF op = "upload" THEN Len(uploadLog) ELSE 0]
       IN /\ disk' = [disk EXCEPT ![path] = <<f.content>>]
          /\ inflight' = inflight (+) SetToBag({req})
    /\ accepted' = accepted + 1
    /\ response' = NoResponse
    /\ UNCHANGED <<now, fileRecords, uploadLog>>
    /\ UNCHANGED <<auditVars, netVars, chainVars, uiVars>>

\* stream.on('data'): the stream reads the file as it is on disk now and
\* feeds it to hash.update.  (Files here fit in one chunk.)
StreamData(r) ==
    /\ r.pc = "reading"
    /\ disk[r.filePath] # <<>>
    /\ inflight' = Replace(inflight, r,
          [r EXCEPT !.hash = Sha256Hex(disk[r.filePath][1]), !.pc = "read"])
    /\ response' = NoResponse
    /\ UNCHANGED <<now, disk, fileRecords, uploadLog, accepted>>
    /\ UNCHANGED <<auditVars, netVars, chainVars, uiVars>>

\* The record POST /api/upload builds for request req at time t.
NewFileRecord(req, t) ==
    [id |-> toString(t),
     originalName |-> req.originalName,
     filePath |-> req.filePath,
     fileHash |-> req.hash,
     ipfsHash |-> simulateIPFSUpload(req.originalName, t),
     description |-> req.description,
     uploadTime |-> t,
     size |-> req.size]

\* A failure path that still files a record, with an empty fingerprint.
StreamErrorStoring(r) ==
    /\ r.pc = "reading"
    /\ response' = ErrorResponse(r.op, 500,
          CASE r.op = "upload" -> "Failed to process file upload"
            [] r.op = "verify" -> "Failed to verify file"
            [] r.op = "calculate-hash" -> "Failed to calculate file hash")
    /\ inflight' = Remove(inflight, r)
    /\ disk' = Live(disk, inflight')
    /\ fileRecords' = IF r.op = "upload"
                      THEN MapSet(fileRecords, NewFileRecord(r, now))
                      ELSE fileRecords
    /\ UNCHANGED <<now, uploadLog, accepted>>
    /\ UNCHANGED <<auditVars, netVars, chainVars, uiVars>>

\* stream.on('error'): the promise rejects, the handler's catch answers 500.
\* Opening a path that has been unlinked fails this way; any other read
\* error does too.
StreamError(r) ==
    /\ r.pc = "reading"
    /\ response' = ErrorResponse(r.op, 500,
          CASE r.op = "upload" -> "Failed to process file upload"
            [] r.op = "verify" -> "Failed to verify file"
            [] r.op = "calculate-hash" -> "Failed to calculate file hash")
    /\ inflight' = Remove(inflight, r)
    /\ disk' = Live(disk, inflight')
    /\ UNCHANGED <<now, fileRecords, uploadLog, accepted>>
    /\ UNCHANGED <<auditVars, netVars, chainVars, uiVars>>

\* POST /api/upload after the await: build the record, store it under
\* Date.now().toString(), answer with the summary.
UploadContinue(r) ==
    /\ r.op = "upload"
    /\ r.pc = "read"
    /\ LET fileRecord == NewFileRecord(r, now)
       IN /\ fileRecords' = MapSet(fileRecords, fileRecord)
          /\ response' =
               [op |-> "upload", status |-> 200, success |-> TRUE,
                data |-> <<Summary(fileRecord)>>,
                content |-> r.content]
          /\ uploadLog' = Append(uploadLog,
               [id |-> fileRecord.id,
                originalName |-> fileRecord.originalName,
                fileHash |-> fileRecord.fileHash,
                description |-> fileRecord.description,
                uploadTime |-> fileRecord.uploadTime,
                content |-> r.content,
                arrivedAfter |-> r.arrivedAfter])
    /\ inflight' = Remove(inflight, r)
    /\ disk' = Live(disk, inflight')
    /\ UNCHANGED <<now, accepted>>
    /\ UNCHANGED <<auditVars, netVars, chainVars, uiVars>>

\* POST /api/verify after the await: unlink the temporary file (throws when
\* it is gone already), look the digest up, answer.
VerifyContinue(r) ==
    /\ r.op = "verify"
    /\ r.pc = "read"
    /\ inflight' = Remove(inflight, r)
    /\ LET matchingRecord == FindByHash(fileRecords, r.hash)
       IN IF disk[r.filePath] = <<>>
          THEN /\ response' = ErrorResponse("verify", 500,
                                 "Failed to verify file")
               /\ disk' = Live(disk, inflight')
          ELSE /\ disk' = Live([disk EXCEPT ![r.filePath] = <<>>], inflight')
               /\ response' =
                    IF matchingRecord # <<>>
                    THEN [op |-> "verify", status |-> 200, success |-> TRUE,
                          isValid |-> TRUE,
                          data |-> <<MatchData(matchingRecord[1])>>,
                          calculatedHash |-> <<>>,
                          content |-> r.content]
                    ELSE [op |-> "verify", status |-> 200, success |-> TRUE,
                          isValid |-> FALSE,
                          data |-> <<>>,
                          calculatedHash |-> <<r.hash>>,
                          content |-> r.content]
    /\ UNCHANGED <<now, fileRecords, uploadLog, accepted>>
    /\ UNCHANGED <<auditVars, netVars, chainVars, uiVars>>

\* POST /api/calculate-hash after the await.
CalculateHashContinue(r) ==
    /\ r.op = "calculate-hash"
    /\ r.pc = "read"
    /\ inflight' = Remove(inflight, r)
    /\ IF disk[r.filePath] = <<>>
       THEN /\ response' = ErrorResponse("calculate-hash", 500,
                              "Failed to calculate file hash")
            /\ disk' = Live(disk, inflight')
       ELSE /\ disk' = Live([disk EXCEPT ![r.filePath] = <<>>], inflight')
            /\ response' =
                 [op |-> "calculate-hash", status |-> 200,
                  success |-> TRUE, fileHash |-> r.hash,
                  fileName |-> r.originalName, size |-> r.size]
    /\ UNCHANGED <<now, fileRecords, uploadLog, accepted>>
    /\ UNCHANGED <<auditVars, netVars, chainVars, uiVars>>

\* The strings a client may send to /api/verify-hash: the digests of the
\* contents, a string that is no digest of any of them, the empty string.
HashStrings == {Sha256Hex(c) : c \in Contents} \cup {<<"f", "f">>, <<>>}

\* A test that lets every string through.
isFalsyNever(str) == FALSE

\* !str for a string: only the empty string is falsy.
isFalsy(str) == str = <<>>

\* POST /api/verify-hash.  (fileHash in the 400 answer is the request's
\* field, kept for the properties; the body has only the error.)
VerifyHash(fileHash) ==
    /\ LET matchingRecord == FindByHash(fileRecords, fileHash)
       IN response' =
            IF isFalsy(fileHash)
            THEN [op |-> "verify-hash", status |-> 400,
                  error |-> "File hash is required", fileHash |-> fileHash]
            ELSE IF matchingRecord # <<>>
            THEN [op |-> "verify-hash", status |-> 200, success |-> TRUE,
                  isValid |-> TRUE,
                  data |-> <<MatchData(matchingRecord[1])>>,
                  fileHash |-> fileHash]
            ELSE [op |-> "verify-hash", status |-> 200, success |-> TRUE,
                  isValid |-> FALSE, data |-> <<>>,
                  fileHash |-> fileHash]
    /\ UNCHANGED <<now, disk, fileRecords, inflight, uploadLog, accepted>>
    /\ UNCHANGED <<auditVars, netVars, chainVars, uiVars>>

\* The body GET /api/files sends: the summaries of the records, in the
\* Map's insertion order.
FilesResponse ==
    LET list == MapSeq(fileRecords, 1)
    IN [op |-> "files", status |-> 200, success |-> TRUE,
        count |-> Len(list), data |-> list]

\* GET /api/files.
GetFiles ==
    /\ response' = FilesResponse
    /\ UNCHANGED <<now, disk, fileRecords, inflight, uploadLog, accepted>>
    /\ UNCHANGED <<auditVars, netVars, chainVars, uiVars>>

\* A lookup that takes the record out of the table as it reads it.
GetFileByIdDeleting(id) ==
    /\ LET record == MapGet(fileRecords, id)
       IN /\ response' =
               IF record = <<>>
               THEN [op |-> "file", status |-> 404,
                     error |-> "File not found", id |-> id]
               ELSE [op |-> "file", status |-> 200, success |-> TRUE,
                     data |-> <<Summary(record[1])>>, id |-> id]
          /\ fileRecords' = SelectSeq(fileRecords, LAMBDA r : r.id # id)
    /\ UNCHANGED <<now, disk, inflight, uploadLog, accepted>>
    /\ UNCHANGED <<auditVars, netVars, chainVars, uiVars>>

\* GET /api/files/:id.  (id in the answer is the request's parameter, kept
\* for the properties.)
GetFileById(id) ==
    /\ LET record == MapGet(fileRecords, id)
       IN response' =
            IF record = <<>>
            THEN [op |-> "file", status |-> 404,
                  error |-> "File not found", id |-> id]
            ELSE [op |-> "file", status |-> 200, success |-> TRUE,
                  data |-> <<Summary(record[1])>>, id |-> id]
    /\ UNCHANGED <<now, disk, fileRecords, inflight, uploadLog, accepted>>
    /\ UNCHANGED <<auditVars, netVars, chainVars, uiVars>>

Next ==
    \/ Tick
    \/ NoFileRequest
    \/ \E op \in {"upload", "verify", "calculate-hash"}, f \in ClientFiles :
            FileRequest(op, f)
    \/ \E r \in BagToSet(inflight) : StreamData(r)
    \/ \E r \in BagToSet(inflight) : StreamError(r)
    \/ \E r \in BagToSet(inflight) : UploadContinue(r)
    \/ \E r \in BagToSet(inflight) : VerifyContinue(r)
    \/ \E r \in BagToSet(inflight) : CalculateHashContinue(r)
    \/ \E h \in HashStrings : VerifyHash(h)
    \/ GetFiles
    \/ \E t \in Times : GetFileById(toString(t))

Spec == Init /\ [][Next]_vars

\* Uploads at the edge of what /api/upload accepts: a zero-length file, and
\* an ordinary one.  (A file part whose filename is empty is not a file to
\* multer: req.file stays undefined, which is NoFileRequest.)
EdgeFiles ==
    { [name |-> <<"a", ".", "t">>, content |-> <<>>, description |-> <<>>],
      [name |-> <<"a", ".", "t">>, content |-> <<1>>,
       description |-> <<"N", "d", "a">>] }

UploadEdgeFile == \E f \in EdgeFiles : FileRequest("upload", f)

NextValidation ==
    \/ Tick
    \/ NoFileRequest
    \/ UploadEdgeFile
    \/ \E r \in BagToSet(inflight) : StreamData(r)
    \/ \E r \in BagToSet(inflight) : StreamError(r)
    \/ \E r \in BagToSet(inflight) : UploadContinue(r)
    \/ GetFiles

SpecValidation == Init /\ [][NextValidation]_vars

----------------------------------------------------------------------------
(* AuditTrail component *)

MaxFiles == 2      \* length of the list the audit view loads
MaxTermLen == 2    \* length of the search text

\* Characters of the strings the audit view handles.
Chars == {"a", "A", "b", " "}

\* A comparison that keeps the case of each character.
LowerOfKeepingCase(ch) == ch

\* String.prototype.toLowerCase, character by character.
LowerOf(ch) ==
    CASE ch = "A" -> "a"
      [] ch = "B" -> "b"
      [] ch = "N" -> "n"
      [] OTHER -> ch

toLowerCase(str) == [k \in 1..Len(str) |-> LowerOf(str[k])]

\* String.prototype.trim: drop white space at both ends.
RECURSIVE trim(_)
trim(str) ==
    IF str = <<>> THEN str
    ELSE IF Head(str) = " " THEN trim(Tail(str))
    ELSE IF str[Len(str)] = " " THEN trim(SubSeq(str, 1, Len(str) - 1))
    ELSE str

\* String.prototype.includes: sub occurs in str at some position.
includes(str, sub) ==
    \E k \in 0..(Len(str) - Len(sub)) :
        SubSeq(str, k + 1, k + Len(sub)) = sub

\* A filter that looks at the name and the fingerprint only.
RECURSIVE filterWithoutDescription(_, _)
filterWithoutDescription(list, term) ==
    IF list = <<>> THEN <<>>
    ELSE LET file == Head(list)
             keep ==
               \/ includes(toLowerCase(file.originalName), toLowerCase(term))
               \/ includes(toLowerCase(file.fileHash), toLowerCase(term))
         IN (IF keep THEN <<file>> ELSE <<>>)
               \o filterWithoutDescription(Tail(list), term)

\* Array.prototype.filter with the predicate of the filter effect.
RECURSIVE filter(_, _)
filter(list, term) ==
    IF list = <<>> THEN <<>>
    ELSE LET file == Head(list)
             keep ==
               \/ includes(toLowerCase(file.originalName), toLowerCase(term))
               \/ includes(toLowerCase(file.description), toLowerCase(term))
               \/ includes(toLowerCase(file.fileHash), toLowerCase(term))
         IN (IF keep THEN <<file>> ELSE <<>>) \o filter(Tail(list), term)

\* The effect on [files, searchTerm]: the value it gives filteredFiles.
FilterEffect(list, term) ==
    IF trim(term) = <<>> THEN list ELSE filter(list, term)

\* Search texts a user can type.
SearchTerms ==
    UNION {[1..n -> Chars] : n \in 0..MaxTermLen}

\* Records a server can have sent (the fields the view filters on, and id).
ServedRecords ==
    { [id |-> <<"1">>, originalName |-> <<"A", "b">>,
       description |-> <<>>, fileHash |-> <<"1", "f">>],
      [id |-> <<"2">>, originalName |-> <<"c">>,
       description |-> <<"a", " ", "B">>, fileHash |-> <<"2", "c">>],
      [id |-> <<"3">>, originalName |-> <<"x">>,
       description |-> <<"y">>, fileHash |-> <<"b", "a">>] }

ServedLists ==
    UNION {[1..n -> ServedRecords] : n \in 0..MaxFiles}

\* The component has mounted: state initialised, loadFiles() called by the
\* mount effect and waiting for the server.
AuditInit ==
    /\ files = <<>>
    /\ isLoading = TRUE
    /\ error = <<>>
    /\ searchTerm = <<>>
    /\ filteredFiles = <<>>

\* The Refresh button (disabled while isLoading): loadFiles() up to its await.
LoadFilesStart ==
    /\ ~isLoading
    /\ isLoading' = TRUE
    /\ error' = <<>>
    /\ UNCHANGED <<files, searchTerm, filteredFiles>>
    /\ UNCHANGED <<serverVars, netVars, chainVars, uiVars>>

\* A load that adds the list received to the list already held.
LoadFilesSuccessAppending(data) ==
    /\ isLoading
    /\ files' = files \o data
    /\ filteredFiles' = FilterEffect(files \o data, searchTerm)
    /\ isLoading' = FALSE
    /\ UNCHANGED <<error, searchTerm>>
    /\ UNCHANGED <<serverVars, chainVars, uiVars>>

\* loadFiles() after the await, response.data.success: setFiles, and the
\* filter effect reruns because files changed.
LoadFilesSuccess(data) ==
    /\ isLoading
    /\ files' = data
    /\ filteredFiles' = FilterEffect(data, searchTerm)
    /\ isLoading' = FALSE
    /\ UNCHANGED <<error, searchTerm>>
    /\ UNCHANGED <<serverVars, chainVars, uiVars>>

\* loadFiles() after the await, the request failed: setError.
LoadFilesFailure ==
    /\ isLoading
    /\ error' = <<"Failed to load audit trail">>
    /\ isLoading' = FALSE
    /\ UNCHANGED <<files, searchTerm, filteredFiles>>
    /\ UNCHANGED <<serverVars, chainVars, uiVars>>

\* The search field's onChange: setSearchTerm, and the filter effect reruns.
SetSearchTerm(term) ==
    /\ searchTerm' = term
    /\ filteredFiles' = FilterEffect(files, term)
    /\ UNCHANGED <<files, isLoading, error>>
    /\ UNCHANGED <<serverVars, netVars, chainVars, uiVars>>

\* The filter alone: the request is answered by some server with some list,
\* or fails.
LoadAnyList ==
    /\ \E data \in ServedLists : LoadFilesSuccess(data)
    /\ UNCHANGED netVars

LoadFails ==
    /\ LoadFilesFailure
    /\ UNCHANGED netVars

NextFilter ==
    \/ LoadFilesStart
    \/ LoadAnyList
    \/ LoadFails
    \/ \E term \in SearchTerms : SetSearchTerm(term)

\* The server has started and the component has mounted.
InitFilter ==
    ServerInit /\ AuditInit /\ NetIdle /\ ChainInit /\ WalletIdle /\ FormInit

SpecFilter == InitFilter /\ [][NextFilter]_vars

----------------------------------------------------------------------------
(* The audit view loading its list from this server, while uploads go on *)

\* The server handles the GET /api/files that loadFiles() sent: the answer
\* is built from the Map as it is now and leaves for the client.
ServeListing ==
    /\ isLoading
    /\ listResponse = <<>>
    /\ response' = FilesResponse
    /\ listResponse' = <<[data |-> FilesResponse.data,
                          ledger |-> fileRecords]>>
    /\ UNCHANGED <<now, disk, fileRecords, inflight, uploadLog, accepted>>
    /\ UNCHANGED <<auditVars, loadedFrom, chainVars, uiVars>>

\* The answer reaches loadFiles().
DeliverListing ==
    /\ listResponse # <<>>
    /\ LoadFilesSuccess(listResponse[1].data)
    /\ loadedFrom' = <<listResponse[1].ledger>>
    /\ listResponse' = <<>>

\* The request or its answer is lost: axios rejects, loadFiles() catches.
LoseListing ==
    /\ LoadFilesFailure
    /\ listResponse' = <<>>
    /\ UNCHANGED loadedFrom

UploadClientFile == \E f \in ClientFiles : FileRequest("upload", f)

NextAudit ==
    \/ Tick
    \/ UploadClientFile
    \/ \E r \in BagToSet(inflight) : StreamData(r)
    \/ \E r \in BagToSet(inflight) : StreamError(r)
    \/ \E r \in BagToSet(inflight) : UploadContinue(r)
    \/ LoadFilesStart
    \/ ServeListing
    \/ DeliverListing
    \/ LoseListing

SpecAudit == InitFilter /\ [][NextAudit]_vars

----------------------------------------------------------------------------
(* FileIntegrity contract *)

MaxChainFiles == 2   \* records the model lets the contract store
MaxBlocks == 1       \* times block.timestamp advances
MaxTx == 3           \* uploadFile transactions the model sends

Addresses == {"0xA", "0xB"}
ZeroAddress == "0x0"

\* Arguments of uploadFile calls: well-formed ones that differ in every
\* field but share a hash, and ones with an empty name, an empty hash, both.
UploadCalls ==
    { [sender |-> "0xA", fileName |-> <<"a", ".", "t">>,
       fileHash |-> Sha256Hex(<<1>>), ipfsHash |-> <<"Q", "1">>,
       description |-> <<>>],
      [sender |-> "0xB", fileName |-> <<"B", ".", "t">>,
       fileHash |-> Sha256Hex(<<1>>), ipfsHash |-> <<"Q", "2">>,
       description |-> <<"N", "d", "a">>],
      [sender |-> "0xA", fileName |-> <<"a", ".", "t">>,
       fileHash |-> Sha256Hex(<<2>>), ipfsHash |-> <<"Q", "1">>,
       description |-> <<>>],
      [sender |-> "0xB", fileName |-> <<"a", ".", "t">>,
       fileHash |-> <<"f", "f">>, ipfsHash |-> <<>>,
       description |-> <<"N", "d", "a">>],
      [sender |-> "0xA", fileName |-> <<>>,
       fileHash |-> Sha256Hex(<<1>>), ipfsHash |-> <<"Q", "1">>,
       description |-> <<>>],
      [sender |-> "0xA", fileName |-> <<>>,
       fileHash |-> <<>>, ipfsHash |-> <<"Q", "1">>,
       description |-> <<>>],
      [sender |-> "0xB", fileName |-> <<"B", ".", "t">>,
       fileHash |-> <<>>, ipfsHash |-> <<"Q", "2">>,
       description |-> <<>>] }

\* The zero value of struct FileRecord.
ZeroRecord ==
    [fileName |-> <<>>, fileHash |-> <<>>, ipfsHash |-> <<>>,
     uploader |-> ZeroAddress, timestamp |-> 0, description |-> <<>>,
     exists |-> FALSE]

\* Reads of the three mappings: a key never written reads as zero.
FilesAt(_fileId) ==
    IF _fileId \in DOMAIN chainFiles THEN chainFiles[_fileId] ELSE ZeroRecord

HashToFileIdAt(_fileHash) ==
    IF _fileHash \in DOMAIN hashToFileId THEN hashToFileId[_fileHash] ELSE 0

UploaderFilesAt(_uploader) ==
    IF _uploader \in DOMAIN uploaderFiles THEN uploaderFiles[_uploader]
    ELSE <<>>

\* A write that drops every other key.
MappingSetAlone(m, key, value) == [k \in {key} |-> value]

\* A write to a mapping.
MappingSet(m, key, value) ==
    [k \in DOMAIN m \cup {key} |-> IF k = key THEN value ELSE m[k]]

\* The next block is mined.
MineBlock ==
    /\ blockTimestamp < GenesisTime + MaxBlocks
    /\ blockTimestamp' = blockTimestamp + 1
    /\ txResult' = [op |-> "none", reverted |-> FALSE]
    /\ UNCHANGED <<currentFileId, chainFiles, hashToFileId, uploaderFiles,
                   txLog>>
    /\ UNCHANGED <<serverVars, auditVars, netVars, uiVars>>

\* The id taken before the counter is incremented.
NextFileIdBeforeIncrement == currentFileId

\* currentFileId++; fileId = currentFileId.
NextFileId == currentFileId + 1

\* An insertion at the front of the array.
PushFront(array, value) == <<value>> \o array

\* array.push(value).
Push(array, value) == Append(array, value)

\* A check of the name alone.
requireInputsNameOnly(_fileName, _fileHash) ==
    IF Len(_fileName) = 0 THEN <<"File name cannot be empty">>
    ELSE <<>>

\* The first two requires of uploadFile: <<>> when both pass, else the
\* reason of the first that fails.
requireInputs(_fileName, _fileHash) ==
    IF Len(_fileName) = 0 THEN <<"File name cannot be empty">>
    ELSE IF Len(_fileHash) = 0 THEN <<"File hash cannot be empty">>
    ELSE <<>>

\* A check that lets every hash through.
requireNewHashAlways(_fileHash) == TRUE

\* The condition of the third require of uploadFile.
requireNewHash(_fileHash) == HashToFileIdAt(_fileHash) = 0

\* uploadFile(_fileName, _fileHash, _ipfsHash, _description) sent by
\* call.sender.  A revert undoes every storage write of the transaction.
uploadFile(call) ==
    LET reason ==
            IF requireInputs(call.fileName, call.fileHash) # <<>>
            THEN requireInputs(call.fileName, call.fileHash)
            ELSE IF ~requireNewHash(call.fileHash)
            THEN <<"File with this hash already exists">>
            ELSE <<>>
        fileId == NextFileId
    IN /\ Len(txLog) < MaxTx
       /\ reason = <<>> => currentFileId < MaxChainFiles
       /\ txLog' = Append(txLog,
             [call |-> call, reverted |-> reason # <<>>,
              ret |-> IF reason = <<>> THEN <<fileId>> ELSE <<>>,
              timestamp |-> blockTimestamp])
       /\ IF reason # <<>>
          THEN /\ txResult' = [op |-> "uploadFile", reverted |-> TRUE,
                               reason |-> reason[1], call |-> call,
                               ret |-> <<>>, events |-> <<>>]
               /\ UNCHANGED <<currentFileId, chainFiles, hashToFileId,
                              uploaderFiles>>
          ELSE /\ currentFileId' = currentFileId + 1
               /\ chainFiles' = MappingSet(chainFiles, fileId,
                     [fileName |-> call.fileName,
                      fileHash |-> call.fileHash,
                      ipfsHash |-> call.ipfsHash,
                      uploader |-> call.sender,
                      timestamp |-> blockTimestamp,
                      description |-> call.description,
                      exists |-> TRUE])
               /\ hashToFileId' =
                     MappingSet(hashToFileId, call.fileHash, fileId)
               /\ uploaderFiles' =
                     MappingSet(uploaderFiles, call.sender,
                        Push(UploaderFilesAt(call.sender), fileId))
               /\ txResult' =
                     [op |-> "uploadFile", reverted |-> FALSE,
                      reason |-> "", call |-> call, ret |-> <<fileId>>,
                      events |-> <<[name |-> "FileUploaded",
                                    fileId |-> fileId,
                                    fileName |-> call.fileName,
                                    fileHash |-> call.fileHash,
                                    ipfsHash |-> call.ipfsHash,
                                    uploader |-> call.sender,
                                    timestamp |-> blockTimestamp]>>]
       /\ UNCHANGED blockTimestamp
       /\ UNCHANGED <<serverVars, auditVars, netVars, uiVars>>

\* verifyFile(_fileHash) sent by sender.
verifyFile(sender, _fileHash) ==
    /\ LET fileId == HashToFileIdAt(_fileHash)
           isValid == fileId # 0
           file == FilesAt(fileId)
       IN txResult' =
            [op |-> "verifyFile", reverted |-> FALSE, reason |-> "",
             fileHash |-> _fileHash,
             ret |-> [isValid |-> isValid, fileId |-> fileId,
                      uploader |-> IF isValid THEN file.uploader
                                   ELSE ZeroAddress,
                      timestamp |-> IF isValid THEN file.timestamp ELSE 0],
             events |-> <<[name |-> "FileVerified", fileId |-> fileId,
                           fileHash |-> _fileHash, isValid |-> isValid,
                           verifier |-> sender]>>]
    /\ UNCHANGED <<currentFileId, chainFiles, hashToFileId, uploaderFiles,
                   blockTimestamp, txLog>>
    /\ UNCHANGED <<serverVars, auditVars, netVars, uiVars>>

\* A test of the upper end of the id range only.
fileExistsUpToCounter(_fileId) == _fileId <= currentFileId

\* modifier fileExists.
fileExists(_fileId) == FilesAt(_fileId).exists

\* getFileById(_fileId).
getFileById(_fileId) ==
    /\ txResult' =
         IF fileExists(_fileId)
         THEN [op |-> "getFileById", reverted |-> FALSE, reason |-> "",
               fileId |-> _fileId, ret |-> <<FilesAt(_fileId)>>]
         ELSE [op |-> "getFileById", reverted |-> TRUE,
               reason |-> "File does not exist",
               fileId |-> _fileId, ret |-> <<>>]
    /\ UNCHANGED <<currentFileId, chainFiles, hashToFileId, uploaderFiles,
                   blockTimestamp, txLog>>
    /\ UNCHANGED <<serverVars, auditVars, netVars, uiVars>>

\* getFilesByUploader(_uploader).
getFilesByUploader(_uploader) ==
    /\ txResult' = [op |-> "getFilesByUploader", reverted |-> FALSE,
                    reason |-> "", uploader |-> _uploader,
                    ret |-> UploaderFilesAt(_uploader)]
    /\ UNCHANGED <<currentFileId, chainFiles, hashToFileId, uploaderFiles,
                   blockTimestamp, txLog>>
    /\ UNCHANGED <<serverVars, auditVars, netVars, uiVars>>

\* getTotalFiles().
getTotalFiles ==
    /\ txResult' = [op |-> "getTotalFiles", reverted |-> FALSE,
                    reason |-> "", ret |-> currentFileId]
    /\ UNCHANGED <<currentFileId, chainFiles, hashToFileId, uploaderFiles,
                   blockTimestamp, txLog>>
    /\ UNCHANGED <<serverVars, auditVars, netVars, uiVars>>

\* A test that no hash fails.
fileHashExistsAtLeastZero(_fileHash) ==
    /\ txResult' = [op |-> "fileHashExists", reverted |-> FALSE,
                    reason |-> "", fileHash |-> _fileHash,
                    ret |-> (HashToFileIdAt(_fileHash) >= 0)]
    /\ UNCHANGED <<currentFileId, chainFiles, hashToFileId, uploaderFiles,
                   blockTimestamp, txLog>>
    /\ UNCHANGED <<serverVars, auditVars, netVars, uiVars>>

\* fileHashExists(_fileHash).
fileHashExists(_fileHash) ==
    /\ txResult' = [op |-> "fileHashExists", reverted |-> FALSE,
                    reason |-> "", fileHash |-> _fileHash,
                    ret |-> (HashToFileIdAt(_fileHash) # 0)]
    /\ UNCHANGED <<currentFileId, chainFiles, hashToFileId, uploaderFiles,
                   blockTimestamp, txLog>>
    /\ UNCHANGED <<serverVars, auditVars, netVars, uiVars>>

\* getFileAuditTrail(_fileId).
getFileAuditTrail(_fileId) ==
    /\ txResult' =
         IF fileExists(_fileId)
         THEN LET file == FilesAt(_fileId)
              IN [op |-> "getFileAuditTrail", reverted |-> FALSE,
                  reason |-> "", fileId |-> _fileId,
                  ret |-> <<[fileName |-> file.fileName,
                             fileHash |-> file.fileHash,
                             uploader |-> file.uploader,
                             timestamp |-> file.timestamp,
                             description |-> file.description]>>]
         ELSE [op |-> "getFileAuditTrail", reverted |-> TRUE,
               reason |-> "File does not exist",
               fileId |-> _fileId, ret |-> <<>>]
    /\ UNCHANGED <<currentFileId, chainFiles, hashToFileId, uploaderFiles,
                   blockTimestamp, txLog>>
    /\ UNCHANGED <<serverVars, auditVars, netVars, uiVars>>

\* File ids a caller may ask for: 0, the ids in use, one past them.
FileIds == 0..(MaxChainFiles + 1)

NextChain ==
    \/ MineBlock
    \/ \E call \in UploadCalls : uploadFile(call)
    \/ \E sender \in Addresses, h \in HashStrings : verifyFile(sender, h)
    \/ \E id \in FileIds : getFileById(id)
    \/ \E a \in Addresses : getFilesByUploader(a)
    \/ getTotalFiles
    \/ \E h \in HashStrings : fileHashExists(h)
    \/ \E id \in FileIds : getFileAuditTrail(id)

SpecChain == Init /\ [][NextChain]_vars

----------------------------------------------------------------------------
(* The contract as a mirror of the server's ledger: every registration the
   server accepted is sent to the contract, one after the other *)

\* uploadFile's arguments for a record the server has answered with.
MirrorCall(data) ==
    [sender |-> "0xA", fileName |-> data.originalName,
     fileHash |-> data.fileHash, ipfsHash |-> data.ipfsHash,
     description |-> data.description]

\* The next registration reaches the server, once the one before it has
\* been answered and mirrored.
RegisterOnServer ==
    /\ inflight = EmptyBag
    /\ Len(txLog) = Len(uploadLog)
    /\ \E f \in ClientFiles : FileRequest("upload", f)

\* The registration the server has just accepted is sent to the contract.
RegisterOnChain ==
    /\ response.op = "upload"
    /\ response.status = 200
    /\ Len(txLog) < Len(uploadLog)
    /\ uploadFile(MirrorCall(response.data[1]))

NextMirror ==
    \/ Tick
    \/ RegisterOnServer
    \/ \E r \in BagToSet(inflight) : StreamData(r)
    \/ \E r \in BagToSet(inflight) : StreamError(r)
    \/ \E r \in BagToSet(inflight) : UploadContinue(r)
    \/ RegisterOnChain

SpecMirror == Init /\ [][NextMirror]_vars

----------------------------------------------------------------------------
(* BlockchainConnection component.  The state setters a function calls
   between two awaits take effect together (React batches them). *)

MaxConnects == 2     \* connectWallet calls the model starts

\* What the provider answers to getNetwork(), as networkInfo stores it.
Networks == {[name |-> "sepolia", chainId |-> "11155111"]}

\* The component has mounted with window.ethereum defined: the mount effect
\* has called checkConnection(), which waits for provider.listAccounts().
WalletInit ==
    /\ account = <<>>
    /\ isConnected = FALSE
    /\ isConnecting = FALSE
    /\ networkInfo = <<>>
    /\ walletError = <<>>
    /\ walletCalls = {[fn |-> "checkConnection", pc |-> "listAccounts"]}
    /\ walletStarted = 0

\* checkConnection() after listAccounts(): with an account, setAccount and
\* setIsConnected, then wait for getNetwork(); with none, or when the
\* provider threw, return.
CheckListAccounts(c) ==
    /\ c.fn = "checkConnection"
    /\ c.pc = "listAccounts"
    /\ \/ /\ \E a \in Addresses : account' = <<a>>
          /\ isConnected' = TRUE
          /\ walletCalls' = (walletCalls \ {c})
                               \cup {[c EXCEPT !.pc = "getNetwork"]}
       \/ /\ walletCalls' = walletCalls \ {c}
          /\ UNCHANGED <<account, isConnected>>
    /\ UNCHANGED <<isConnecting, networkInfo, walletError, walletStarted>>
    /\ UNCHANGED <<serverVars, auditVars, netVars, chainVars, formVars>>

\* checkConnection() after getNetwork(): setNetworkInfo; or the provider
\* threw and the catch logs it.
CheckGetNetwork(c) ==
    /\ c.fn = "checkConnection"
    /\ c.pc = "getNetwork"
    /\ \/ \E n \in Networks : networkInfo' = <<n>>
       \/ UNCHANGED networkInfo
    /\ walletCalls' = walletCalls \ {c}
    /\ UNCHANGED <<account, isConnected, isConnecting, walletError,
                   walletStarted>>
    /\ UNCHANGED <<serverVars, auditVars, netVars, chainVars, formVars>>

\* The Connect Wallet button (shown while not connected, disabled while
\* connecting) with window.ethereum undefined.
ConnectWalletNoProvider ==
    /\ ~isConnected
    /\ ~isConnecting
    /\ walletError' = <<"MetaMask is not installed">>
    /\ UNCHANGED <<account, isConnected, isConnecting, networkInfo,
                   walletCalls, walletStarted>>
    /\ UNCHANGED <<serverVars, auditVars, netVars, chainVars, formVars>>

\* The Connect Wallet button: connectWallet() up to its first await.
ConnectWallet ==
    /\ ~isConnected
    /\ ~isConnecting
    /\ walletStarted < MaxConnects
    /\ walletStarted' = walletStarted + 1
    /\ isConnecting' = TRUE
    /\ walletError' = <<>>
    /\ walletCalls' = walletCalls
          \cup {[fn |-> "connectWallet", pc |-> "eth_requestAccounts"]}
    /\ UNCHANGED <<account, isConnected, networkInfo>>
    /\ UNCHANGED <<serverVars, auditVars, netVars, chainVars, formVars>>

\* connectWallet() after an await that sets no state: on to the next one.
ConnectAwait(c) ==
    /\ c.fn = "connectWallet"
    /\ c.pc \in {"eth_requestAccounts", "getSigner"}
    /\ walletCalls' = (walletCalls \ {c})
          \cup {[c EXCEPT !.pc = IF c.pc = "eth_requestAccounts"
                                  THEN "getSigner" ELSE "getAddress"]}
    /\ UNCHANGED <<account, isConnected, isConnecting, networkInfo,
                   walletError, walletStarted>>
    /\ UNCHANGED <<serverVars, auditVars, netVars, chainVars, formVars>>

\* connectWallet() after getAddress(): setAccount, setIsConnected, then wait
\* for getNetwork().
ConnectGetAddress(c) ==
    /\ c.fn = "connectWallet"
    /\ c.pc = "getAddress"
    /\ \E a \in Addresses : account' = <<a>>
    /\ isConnected' = TRUE
    /\ walletCalls' = (walletCalls \ {c})
                         \cup {[c EXCEPT !.pc = "getNetwork"]}
    /\ UNCHANGED <<isConnecting, networkInfo, walletError, walletStarted>>
    /\ UNCHANGED <<serverVars, auditVars, netVars, chainVars, formVars>>

\* connectWallet() after getNetwork(): setNetworkInfo, and the finally
\* block.
ConnectGetNetwork(c) ==
    /\ c.fn = "connectWallet"
    /\ c.pc = "getNetwork"
    /\ \E n \in Networks : networkInfo' = <<n>>
    /\ isConnecting' = FALSE
    /\ walletCalls' = walletCalls \ {c}
    /\ UNCHANGED <<account, isConnected, walletError, walletStarted>>
    /\ UNCHANGED <<serverVars, auditVars, netVars, chainVars, formVars>>

\* connectWallet(), an await rejects (the user refuses, the provider
\* fails): the catch sets error, then the finally block.
ConnectFails(c) ==
    /\ c.fn = "connectWallet"
    /\ walletError' = <<"Failed to connect wallet">>
    /\ isConnecting' = FALSE
    /\ walletCalls' = walletCalls \ {c}
    /\ UNCHANGED <<account, isConnected, networkInfo, walletStarted>>
    /\ UNCHANGED <<serverVars, auditVars, netVars, chainVars, formVars>>

\* The Disconnect button (shown while connected).
disconnectWallet ==
    /\ isConnected
    /\ account' = <<>>
    /\ isConnected' = FALSE
    /\ networkInfo' = <<>>
    /\ walletError' = <<>>
    /\ UNCHANGED <<isConnecting, walletCalls, walletStarted>>
    /\ UNCHANGED <<serverVars, auditVars, netVars, chainVars, formVars>>

NextWallet ==
    \/ \E c \in walletCalls : CheckListAccounts(c)
    \/ \E c \in walletCalls : CheckGetNetwork(c)
    \/ ConnectWalletNoProvider
    \/ ConnectWallet
    \/ \E c \in walletCalls : ConnectAwait(c)
    \/ \E c \in walletCalls : ConnectGetAddress(c)
    \/ \E c \in walletCalls : ConnectGetNetwork(c)
    \/ \E c \in walletCalls : ConnectFails(c)
    \/ disconnectWallet

InitWallet ==
    ServerInit /\ AuditIdle /\ NetIdle /\ ChainInit /\ WalletInit /\ FormInit

SpecWallet == InitWallet /\ [][NextWallet]_vars

----------------------------------------------------------------------------
(* FileUpload component.  handleUpload is an async function: each of its
   awaits is a point where handleFileSelect and the description field can
   act; the file and description it works on are those of its closure. *)

MaxFormUploads == 2  \* handleUpload calls the model starts

\* Files the user can choose.
FormFiles == {[name |-> f.name, content |-> f.content] : f \in ClientFiles}

FormDescriptions == {<<>>, <<"N", "d", "a">>}

\* response.data.data of a successful POST /api/upload of this file.
UploadResultOf(file, text) ==
    [id |-> toString(StartTime), originalName |-> file.name,
     fileHash |-> Sha256Hex(file.content),
     ipfsHash |-> simulateIPFSUpload(file.name, StartTime),
     description |-> text, uploadTime |-> StartTime,
     size |-> Len(file.content)]

\* The file input's onChange: a file, or none when the dialog is cancelled.
handleFileSelect(file) ==
    /\ selectedFile' = file
    /\ uploadResult' = <<>>
    /\ uploadError' = <<>>
    /\ activeStep' = 0
    /\ UNCHANGED <<formDescription, isUploading, uploadCall, formStarted>>
    /\ UNCHANGED <<serverVars, auditVars, netVars, chainVars, walletVars>>

\* The description field's onChange.
SetDescription(text) ==
    /\ formDescription' = text
    /\ UNCHANGED <<selectedFile, isUploading, uploadResult, uploadError,
                   activeStep, uploadCall, formStarted>>
    /\ UNCHANGED <<serverVars, auditVars, netVars, chainVars, walletVars>>

\* The upload button (disabled without a file and while uploading):
\* handleUpload() up to its first await, the 500 ms timer.
handleUpload ==
    /\ selectedFile # <<>>
    /\ ~isUploading
    /\ formStarted < MaxFormUploads
    /\ formStarted' = formStarted + 1
    /\ isUploading' = TRUE
    /\ uploadError' = <<>>
    /\ activeStep' = 1
    /\ uploadCall' = <<[pc |-> "timer", file |-> selectedFile[1],
                        description |-> formDescription]>>
    /\ UNCHANGED <<selectedFile, formDescription, uploadResult>>
    /\ UNCHANGED <<serverVars, auditVars, netVars, chainVars, walletVars>>

\* The timer fires: step 2, calculateClientSideHash starts reading.
UploadTimerDone ==
    /\ uploadCall # <<>>
    /\ uploadCall[1].pc = "timer"
    /\ activeStep' = 2
    /\ uploadCall' = <<[uploadCall[1] EXCEPT !.pc = "hash"]>>
    /\ UNCHANGED <<selectedFile, formDescription, isUploading, uploadResult,
                   uploadError, formStarted>>
    /\ UNCHANGED <<serverVars, auditVars, netVars, chainVars, walletVars>>

\* The client-side hash resolves: step 3, the POST is sent.
UploadHashDone ==
    /\ uploadCall # <<>>
    /\ uploadCall[1].pc = "hash"
    /\ activeStep' = 3
    /\ uploadCall' = <<[uploadCall[1] EXCEPT !.pc = "post"]>>
    /\ UNCHANGED <<selectedFile, formDescription, isUploading, uploadResult,
                   uploadError, formStarted>>
    /\ UNCHANGED <<serverVars, auditVars, netVars, chainVars, walletVars>>

\* The server answers with success: setUploadResult, step 4, then the
\* one-second timer.
UploadPostSucceeds ==
    /\ uploadCall # <<>>
    /\ uploadCall[1].pc = "post"
    /\ uploadResult' = <<UploadResultOf(uploadCall[1].file,
                                        uploadCall[1].description)>>
    /\ activeStep' = 4
    /\ uploadCall' = <<[uploadCall[1] EXCEPT !.pc = "final"]>>
    /\ UNCHANGED <<selectedFile, formDescription, isUploading, uploadError,
                   formStarted>>
    /\ UNCHANGED <<serverVars, auditVars, netVars, chainVars, walletVars>>

\* A failure that leaves the form uploading.
UploadFailsStillUploading ==
    /\ uploadCall # <<>>
    /\ uploadCall[1].pc \in {"hash", "post"}
    /\ uploadError' = <<"Failed to upload file">>
    /\ activeStep' = 0
    /\ uploadCall' = <<>>
    /\ UNCHANGED <<selectedFile, formDescription, isUploading, uploadResult,
                   formStarted>>
    /\ UNCHANGED <<serverVars, auditVars, netVars, chainVars, walletVars>>

\* The file reader fails, the request fails or the server answers without
\* success: the catch sets error and step 0, then the finally block.
UploadFails ==
    /\ uploadCall # <<>>
    /\ uploadCall[1].pc \in {"hash", "post"}
    /\ uploadError' = <<"Failed to upload file">>
    /\ activeStep' = 0
    /\ isUploading' = FALSE
    /\ uploadCall' = <<>>
    /\ UNCHANGED <<selectedFile, formDescription, uploadResult, formStarted>>
    /\ UNCHANGED <<serverVars, auditVars, netVars, chainVars, walletVars>>

\* The one-second timer fires: the finally block.
UploadFinalDone ==
    /\ uploadCall # <<>>
    /\ uploadCall[1].pc = "final"
    /\ isUploading' = FALSE
    /\ uploadCall' = <<>>
    /\ UNCHANGED <<selectedFile, formDescription, uploadResult, uploadError,
                   activeStep, formStarted>>
    /\ UNCHANGED <<serverVars, auditVars, netVars, chainVars, walletVars>>

\* The suspended handleUpload resumes, one way or another.
ContinueUpload ==
    \/ UploadTimerDone
    \/ UploadHashDone
    \/ UploadPostSucceeds
    \/ UploadFails
    \/ UploadFinalDone

NextForm ==
    \/ \E f \in FormFiles : handleFileSelect(<<f>>)
    \/ handleFileSelect(<<>>)
    \/ \E text \in FormDescriptions : SetDescription(text)
    \/ handleUpload
    \/ UploadTimerDone
    \/ UploadHashDone
    \/ UploadPostSucceeds
    \/ UploadFails
    \/ UploadFinalDone

SpecForm == Init /\ [][NextForm]_vars

\* Timers fire, the file reader finishes and the HTTP request is answered
\* or fails: a suspended handleUpload is resumed in the end.
SpecFormLive == Init /\ [][NextForm]_vars /\ WF_vars(ContinueUpload)

----------------------------------------------------------------------------
(* Properties of the audit filter, checked under SpecFilter *)

\* Two characters are the same letter, ignoring case.
SameLetter(x, y) ==
    \/ x = y
    \/ {x, y} \in {{"a", "A"}, {"b", "B"}, {"n", "N"}}

\* term occurs in str, ignoring case.
ContainsIgnoringCase(str, term) ==
    \E k \in 0..(Len(str) - Len(term)) :
        \A m \in 1..Len(term) : SameLetter(str[k + m], term[m])

\* The record has the text in its displayName, description or fingerprint.
Matches(file, term) ==
    \/ ContainsIgnoringCase(file.originalName, term)
    \/ ContainsIgnoringCase(file.description, term)
    \/ ContainsIgnoringCase(file.fileHash, term)

MatchesSearchTerm(file) == Matches(file, searchTerm)

IsBlank(term) == \A k \in 1..Len(term) : term[k] = " "

\* C10 as stated: the filtered view holds exactly the records that contain
\* the filter text ignoring case, in the order of the unfiltered list, for
\* every filter text (an empty text is contained in every record).
C10_FilterIsSubstringPredicate ==
    filteredFiles = SelectSeq(files, MatchesSearchTerm)

\* C10 amended: a filter text that is empty or only white space yields all
\* records; any other text yields exactly the records whose displayName,
\* description or fingerprint contains it (white space included) ignoring
\* case, in the order of the unfiltered list.
C10_FilterIsSubstringPredicateUnlessBlank ==
    filteredFiles =
        IF IsBlank(searchTerm) THEN files
        ELSE SelectSeq(files, MatchesSearchTerm)

\* A non-blank text in the wrong case selects a proper, non-empty part of a
\* list of two records.
C10_Witness ==
    /\ ~IsBlank(searchTerm)
    /\ Len(files) = 2
    /\ Len(filteredFiles) = 1
    /\ ~includes(filteredFiles[1].originalName, searchTerm)
    /\ ~includes(filteredFiles[1].description, searchTerm)
    /\ ~includes(filteredFiles[1].fileHash, searchTerm)

\* The search text is a substring of the description of record i of files.
IsSubstringOfDescription(i) ==
    \E a \in 1..(Len(files[i].description) + 1) :
        \E b \in (a - 1)..Len(files[i].description) :
            SubSeq(files[i].description, a, b) = searchTerm

\* Every record of the filtered view is a record of the list.
FilteredWithinFiles ==
    /\ Len(filteredFiles) <= Len(files)
    /\ \A j \in 1..Len(filteredFiles) :
          \E i \in 1..Len(files) : files[i] = filteredFiles[j]

\* C11 as stated: filtering by a (non-empty) substring of the description
\* of a record of the list yields a strict subset of the list that contains
\* the record.
C11_DescriptionFilterStrictSubset ==
    \A i \in 1..Len(files) :
        (searchTerm # <<>> /\ IsSubstringOfDescription(i))
            => /\ FilteredWithinFiles
               /\ Len(filteredFiles) < Len(files)
               /\ \E j \in 1..Len(filteredFiles) : filteredFiles[j] = files[i]

\* C11 amended: filtering by a substring of the description of a record of
\* the list yields a subset of the list (the whole list when every record
\* matches or the text is blank) that contains the record.
C11_DescriptionFilterSubset ==
    \A i \in 1..Len(files) :
        IsSubstringOfDescription(i)
            => /\ FilteredWithinFiles
               /\ \E j \in 1..Len(filteredFiles) : filteredFiles[j] = files[i]

\* A non-blank part of one record's description selects that record and
\* drops the other record of the list.
C11_Witness ==
    /\ ~IsBlank(searchTerm)
    /\ Len(files) = 2
    /\ Len(filteredFiles) = 1
    /\ \E i \in 1..2 :
          /\ IsSubstringOfDescription(i)
          /\ filteredFiles[1] = files[i]
          /\ ~includes(toLowerCase(files[i].originalName),
                       toLowerCase(searchTerm))
          /\ ~includes(toLowerCase(files[i].fileHash),
                       toLowerCase(searchTerm))

----------------------------------------------------------------------------
(* Properties of the server ledger, checked under Spec *)

\* Number(id): the value of a decimal string.
RECURSIVE parseInt(_)
parseInt(str) ==
    IF str = <<>> THEN 0
    ELSE parseInt(SubSeq(str, 1, Len(str) - 1)) * 10
           + ((CHOOSE k \in 1..10 : HexDigits[k] = str[Len(str)]) - 1)

\* C1: a fingerprint identifies at most one record: no two records of
\* fileRecords have the same fileHash, in every reachable state.
C1_FingerprintUnique ==
    \A i, j \in 1..Len(fileRecords) :
        i # j => fileRecords[i].fileHash # fileRecords[j].fileHash

\* C2: once an upload of some content has succeeded, no later upload of
\* byte-identical content succeeds: the successful uploads carry pairwise
\* different contents.
C2_DuplicateUploadRejected ==
    \A i, j \in 1..Len(uploadLog) :
        i < j => uploadLog[i].content # uploadLog[j].content

\* C3: of two uploads with the same fingerprint that were in flight at the
\* same time (the later answered one had arrived before the earlier one was
\* answered), at most one reports success.
C3_ConcurrentDuplicateRejected ==
    \A i, j \in 1..Len(uploadLog) :
        (i < j /\ uploadLog[j].arrivedAfter < i)
            => uploadLog[i].fileHash # uploadLog[j].fileHash

\* C4: the ids of successful uploads are pairwise different and increase
\* with creation order.
C4_RecordIdsUniqueOrdered ==
    \A i, j \in 1..Len(uploadLog) :
        i < j => parseInt(uploadLog[i].id) < parseInt(uploadLog[j].id)

\* C5: the ledger is append-only: every stored record is still stored,
\* with the same field values, after every step.
C5_AppendOnly ==
    [][\A i \in 1..Len(fileRecords) :
          \E j \in 1..Len(fileRecords') : fileRecords'[j] = fileRecords[i]]_vars

\* C6: verify-by-content of a content whose upload succeeded answers
\* isValid = true with the fingerprint that registration returned.
C6_RoundTripVerification ==
    (response.op = "verify" /\ response.status = 200)
        => \A k \in 1..Len(uploadLog) :
              uploadLog[k].content = response.content
                  => /\ response.isValid
                     /\ response.data # <<>>
                     /\ response.data[1].fileHash = uploadLog[k].fileHash

\* C7: verify-by-content of a content whose fingerprint no registration
\* returned answers success with isValid = false, no record metadata, and
\* calculatedHash = the fingerprint of the submitted content.
C7_NegativeVerification ==
    (/\ response.op = "verify"
     /\ response.status = 200
     /\ \A k \in 1..Len(uploadLog) :
            uploadLog[k].fileHash # Sha256Hex(response.content))
        => /\ response.success
           /\ ~response.isValid
           /\ response.data = <<>>
           /\ response.calculatedHash = <<Sha256Hex(response.content)>>

\* C8: verify-hash of a fingerprint returned by a successful registration
\* answers isValid = true with that registration's originalName; of a string
\* that is no stored record's fingerprint it answers isValid = false.
C8_HashOnlyLookup ==
    (response.op = "verify-hash" /\ response.status = 200)
        => /\ \A k \in 1..Len(uploadLog) :
                 uploadLog[k].fileHash = response.fileHash
                     => /\ response.isValid
                        /\ response.data # <<>>
                        /\ response.data[1].originalName
                              = uploadLog[k].originalName
           /\ (\A i \in 1..Len(fileRecords) :
                 fileRecords[i].fileHash # response.fileHash)
                     => ~response.isValid

\* C9: after n successful registrations the listing has count = n and holds
\* one summary per registration, oldest first.
C9_AuditCompleteness ==
    response.op = "files"
        => /\ response.count = Len(uploadLog)
           /\ Len(response.data) = Len(uploadLog)
           /\ \A k \in 1..Len(response.data) :
                 k <= Len(uploadLog)
                     => /\ response.data[k].id = uploadLog[k].id
                        /\ response.data[k].fileHash = uploadLog[k].fileHash
                        /\ response.data[k].originalName
                              = uploadLog[k].originalName
----------------------------------------------------------------------------
(* Properties of input validation, checked under SpecValidation *)

\* C12 as stated: only uploads with a non-empty name and non-empty content
\* create a record; an upload with an empty name, with zero-length content or
\* with no file fails and leaves the ledger unchanged.  So every record in
\* the ledger, and every upload that succeeded, has a name and a positive
\* size.
C12_RegisterValidatesInput ==
    /\ \A i \in 1..Len(fileRecords) :
          fileRecords[i].originalName # <<>> /\ fileRecords[i].size > 0
    /\ \A k \in 1..Len(uploadLog) :
          uploadLog[k].originalName # <<>> /\ uploadLog[k].content # <<>>
    /\ (response.op = "upload" /\ response.status = 200)
          => response.content # <<>>

----------------------------------------------------------------------------
(* Properties of the server's queries, checked under Spec *)

\* C13: verify-hash answers an empty fingerprint string with the 400 error
\* "File hash is required" and no verdict; for a non-empty string the answer
\* is a verdict that is true exactly when the ledger holds a record with that
\* very string as its fingerprint; no answer carries a computed fingerprint.
C13_VerifyHashValidates ==
    response.op = "verify-hash" =>
        /\ "calculatedHash" \notin DOMAIN response
        /\ response.fileHash = <<>> =>
              /\ response.status = 400
              /\ response.error = "File hash is required"
              /\ "isValid" \notin DOMAIN response
              /\ "data" \notin DOMAIN response
        /\ response.fileHash # <<>> =>
              /\ response.status = 200
              /\ response.success
              /\ response.isValid =
                    (\E i \in 1..Len(fileRecords) :
                        fileRecords[i].fileHash = response.fileHash)
              /\ response.isValid =>
                    /\ Len(response.data) = 1
                    /\ response.data[1].fileHash = response.fileHash
              /\ ~response.isValid => response.data = <<>>

\* An empty fingerprint is rejected while the ledger holds records.
C13_Witness ==
    /\ response.op = "verify-hash"
    /\ response.status = 400
    /\ Len(fileRecords) >= 1

\* C14: the ledger table changes only in a step that answers an upload with
\* success; verify, verify-hash, list, get-by-id and calculate-hash, and
\* every failing request, leave it as it is.
C14_QueriesArePure ==
    [][fileRecords' # fileRecords
          => (response'.op = "upload" /\ response'.status = 200)]_vars

\* A verification has matched a record of a non-empty ledger.
C14_Witness ==
    /\ response.op = "verify"
    /\ response.status = 200
    /\ response.isValid
    /\ Len(fileRecords) >= 1

\* C15 as stated: a verification of well-formed input whose fingerprint is
\* not in the ledger is answered with success and isValid = false, never
\* with an error status.  For verify-by-content: the request's file has been
\* read and hashed, and the handler resumes after its await.
C15_MissIsNotAFault ==
    [][/\ \A r \in BagToSet(inflight) :
            (/\ r.op = "verify"
             /\ r.pc = "read"
             /\ inflight' = Remove(inflight, r)
             /\ FindByHash(fileRecords, r.hash) = <<>>)
                => (/\ response'.op = "verify"
                    /\ response'.status = 200
                    /\ response'.success
                    /\ ~response'.isValid)
       /\ (/\ response'.op = "verify-hash"
           /\ response'.fileHash # <<>>
           /\ FindByHash(fileRecords, response'.fileHash) = <<>>)
              => (/\ response'.status = 200
                  /\ response'.success
                  /\ ~response'.isValid)]_vars

C17_LookupById ==
    response.op = "file" =>
        IF \E k \in 1..Len(uploadLog) : uploadLog[k].id = response.id
        THEN /\ response.status = 200
             /\ \A k \in 1..Len(uploadLog) :
                   uploadLog[k].id = response.id =>
                       /\ response.data[1].id = response.id
                       /\ response.data[1].originalName
                             = uploadLog[k].originalName
                       /\ response.data[1].fileHash = uploadLog[k].fileHash
                       /\ response.data[1].description
                             = uploadLog[k].description
                       /\ response.data[1].uploadTime
                             = uploadLog[k].uploadTime
        ELSE response.status = 404

----------------------------------------------------------------------------
(* Properties of the listing, checked under SpecAudit *)

\* list is the summaries of the records of ledger, one for one, in order.
IsListingOf(list, ledger) ==
    /\ Len(list) = Len(ledger)
    /\ \A i \in 1..Len(ledger) : list[i] = Summary(ledger[i])

\* C18: a listing on its way to the client holds exactly the records the
\* ledger held when the request was served, and the list the audit view
\* holds after loading is exactly the records the ledger held when the
\* listing it loaded was served, whatever uploads completed since.
C18_ListingIsSnapshot ==
    /\ listResponse # <<>> =>
          IsListingOf(listResponse[1].data, listResponse[1].ledger)
    /\ loadedFrom # <<>> => IsListingOf(files, loadedFrom[1])
    /\ loadedFrom = <<>> => files = <<>>

\* The view holds a loaded list with a record in it, and an upload has
\* changed the ledger since that listing was served.
C18_Witness ==
    /\ loadedFrom # <<>>
    /\ Len(files) >= 1
    /\ ~isLoading
    /\ fileRecords # loadedFrom[1]

----------------------------------------------------------------------------
(* Properties of the contract, checked under SpecChain *)

\* A stored record has this hash: an earlier uploadFile registered it.
HashRegistered(_fileHash) ==
    \E id \in DOMAIN chainFiles :
        chainFiles[id].exists /\ chainFiles[id].fileHash = _fileHash

StorageUnchanged ==
    UNCHANGED <<currentFileId, chainFiles, hashToFileId, uploaderFiles>>

RevertsWith(reason) ==
    /\ txResult'.reverted
    /\ txResult'.reason = reason
    /\ txResult'.ret = <<>>
    /\ StorageUnchanged

\* C19 as stated: an uploadFile whose hash an earlier successful uploadFile
\* registered reverts with "File with this hash already exists", whatever
\* the name, locator, description and sender, and leaves currentFileId,
\* files, hashToFileId and uploaderFiles unchanged.
C19_DuplicateHashReverts ==
    [][(txResult'.op = "uploadFile"
          /\ HashRegistered(txResult'.call.fileHash))
       => RevertsWith("File with this hash already exists")]_vars

\* C19 amended: the same for every call whose name is not empty; a call
\* with an empty name and a registered hash reverts too and leaves storage
\* unchanged, with the reason "File name cannot be empty".
C19_DuplicateHashRevertsForNamedFile ==
    [][(txResult'.op = "uploadFile"
          /\ HashRegistered(txResult'.call.fileHash))
       => IF txResult'.call.fileName # <<>>
          THEN RevertsWith("File with this hash already exists")
          ELSE RevertsWith("File name cannot be empty")]_vars

\* A duplicate has been refused that differs from the stored record in name,
\* locator, description and sender.
C19_Witness ==
    /\ txResult.op = "uploadFile"
    /\ txResult.reverted
    /\ txResult.reason = "File with this hash already exists"
    /\ \E id \in DOMAIN chainFiles :
          /\ chainFiles[id].fileHash = txResult.call.fileHash
          /\ chainFiles[id].fileName # txResult.call.fileName
          /\ chainFiles[id].ipfsHash # txResult.call.ipfsHash
          /\ chainFiles[id].description # txResult.call.description
          /\ chainFiles[id].uploader # txResult.call.sender

\* C20 as stated: uploadFile with an empty name reverts with "File name
\* cannot be empty", and uploadFile with an empty hash reverts with "File
\* hash cannot be empty"; no id is consumed and no storage changes.
C20_EmptyInputReverts ==
    [][txResult'.op = "uploadFile" =>
          /\ txResult'.call.fileName = <<>>
                => RevertsWith("File name cannot be empty")
          /\ txResult'.call.fileHash = <<>>
                => RevertsWith("File hash cannot be empty")]_vars

\* C20 amended: the reason for an empty hash is "File hash cannot be empty"
\* when the name is not empty; when both are empty the call reverts with the
\* reason for the name.
C20_EmptyInputRevertsNameFirst ==
    [][txResult'.op = "uploadFile" =>
          /\ txResult'.call.fileName = <<>>
                => RevertsWith("File name cannot be empty")
          /\ (txResult'.call.fileHash = <<>>
                /\ txResult'.call.fileName # <<>>)
                => RevertsWith("File hash cannot be empty")]_vars

\* A call with a name and an empty hash has been refused by a contract that
\* holds a record.
C20_Witness ==
    /\ txResult.op = "uploadFile"
    /\ txResult.reverted
    /\ txResult.reason = "File hash cannot be empty"
    /\ txResult.call.fileName # <<>>
    /\ currentFileId >= 1

\* The uploadFile transactions that did not revert, in order.
SuccessfulUploads == SelectSeq(txLog, LAMBDA e : ~e.reverted)

\* The record an uploadFile transaction is to have stored.
RecordOf(e) ==
    [fileName |-> e.call.fileName, fileHash |-> e.call.fileHash,
     ipfsHash |-> e.call.ipfsHash, uploader |-> e.call.sender,
     timestamp |-> e.timestamp, description |-> e.call.description,
     exists |-> TRUE]

\* C21: the k-th successful uploadFile returned k and files[k] is the record
\* of its arguments with its sender as uploader and exists = true;
\* getFileById(k) returns that record; currentFileId, and what getTotalFiles
\* returns, is the number of successful uploads.
C21_IdsAndCount ==
    /\ \A k \in 1..Len(SuccessfulUploads) :
          /\ SuccessfulUploads[k].ret = <<k>>
          /\ FilesAt(k) = RecordOf(SuccessfulUploads[k])
    /\ currentFileId = Len(SuccessfulUploads)
    /\ txResult.op = "getTotalFiles"
          => txResult.ret = Len(SuccessfulUploads)
    /\ (txResult.op = "getFileById"
          /\ txResult.fileId \in 1..Len(SuccessfulUploads))
          => /\ ~txResult.reverted
             /\ txResult.ret = <<RecordOf(SuccessfulUploads[txResult.fileId])>>

\* getFileById(2) has answered after an upload, a reverted upload and a
\* second upload.
C21_Witness ==
    /\ Len(txLog) = 3
    /\ ~txLog[1].reverted /\ txLog[2].reverted /\ ~txLog[3].reverted
    /\ txResult.op = "getFileById"
    /\ txResult.fileId = 2
    /\ ~txResult.reverted

\* The ids of the successful uploads sent by address a, in upload order.
RECURSIVE IdsUploadedBy(_, _)
IdsUploadedBy(a, k) ==
    IF k > Len(SuccessfulUploads) THEN <<>>
    ELSE (IF SuccessfulUploads[k].call.sender = a
          THEN SuccessfulUploads[k].ret ELSE <<>>)
            \o IdsUploadedBy(a, k + 1)

\* C22: for every address, uploaderFiles, and what getFilesByUploader
\* returns, is the sequence of the ids its successful uploads returned, in
\* upload order; no id is under two addresses or twice under one.
C22_UploaderIndex ==
    /\ \A a \in Addresses \cup {ZeroAddress} :
          UploaderFilesAt(a) = IdsUploadedBy(a, 1)
    /\ txResult.op = "getFilesByUploader"
          => txResult.ret = IdsUploadedBy(txResult.uploader, 1)
    /\ \A a, b \in Addresses :
          \A i \in 1..Len(UploaderFilesAt(a)) :
             \A j \in 1..Len(UploaderFilesAt(b)) :
                UploaderFilesAt(a)[i] = UploaderFilesAt(b)[j]
                   => (a = b /\ i = j)

\* getFilesByUploader has returned two ids for an address.
C22_Witness ==
    /\ txResult.op = "getFilesByUploader"
    /\ txResult.ret = <<1, 2>>

\* The successful uploads that registered this hash (at most one).
RegisteredBy(_fileHash) ==
    {k \in 1..Len(SuccessfulUploads) :
        SuccessfulUploads[k].call.fileHash = _fileHash}

\* C23: verifyFile with a hash a successful uploadFile registered returns
\* (true, its id, its uploader, its timestamp), with any other hash
\* (false, 0, ...); fileHashExists returns true for the former and false
\* for the latter; neither changes a record, an index or the counter.
C23_ChainVerification ==
    [][/\ txResult'.op = "verifyFile" =>
            /\ StorageUnchanged
            /\ \A k \in RegisteredBy(txResult'.fileHash) :
                  txResult'.ret =
                      [isValid |-> TRUE, fileId |-> k,
                       uploader |-> SuccessfulUploads[k].call.sender,
                       timestamp |-> SuccessfulUploads[k].timestamp]
            /\ RegisteredBy(txResult'.fileHash) = {} =>
                  /\ ~txResult'.ret.isValid
                  /\ txResult'.ret.fileId = 0
       /\ txResult'.op = "fileHashExists" =>
            /\ StorageUnchanged
            /\ txResult'.ret = (RegisteredBy(txResult'.fileHash) # {})]_vars

\* verifyFile has found the second record, uploaded by another address in
\* another block than the first.
C23_Witness ==
    /\ txResult.op = "verifyFile"
    /\ txResult.ret.isValid
    /\ txResult.ret.fileId = 2
    /\ txResult.ret.uploader # FilesAt(1).uploader
    /\ txResult.ret.timestamp # FilesAt(1).timestamp

\* C24: getFileById and getFileAuditTrail succeed exactly for the ids in
\* 1..currentFileId and revert with "File does not exist" for 0 and for
\* every greater id; getFileAuditTrail returns the name, hash, uploader,
\* timestamp and description stored at upload.
C24_MissingIds ==
    txResult.op \in {"getFileById", "getFileAuditTrail"} =>
        IF txResult.fileId \in 1..currentFileId
        THEN /\ ~txResult.reverted
             /\ txResult.op = "getFileAuditTrail" =>
                   LET e == SuccessfulUploads[txResult.fileId]
                   IN txResult.ret =
                        <<[fileName |-> e.call.fileName,
                           fileHash |-> e.call.fileHash,
                           uploader |-> e.call.sender,
                           timestamp |-> e.timestamp,
                           description |-> e.call.description]>>
        ELSE /\ txResult.reverted
             /\ txResult.reason = "File does not exist"
             /\ txResult.ret = <<>>

\* getFileAuditTrail(0) has reverted on a contract that holds records.
C24_Witness ==
    /\ txResult.op = "getFileAuditTrail"
    /\ txResult.fileId = 0
    /\ txResult.reverted
    /\ currentFileId >= 1

\* The two indices agree on every hash and id.
IndicesAgree ==
    \A h \in HashStrings \cup DOMAIN hashToFileId :
        \A id \in FileIds \cup DOMAIN chainFiles :
            (HashToFileIdAt(h) = id /\ id # 0)
                <=> (FilesAt(id).exists /\ FilesAt(id).fileHash = h)

\* C26: in every state, hashToFileId[h] = id with id # 0 exactly when
\* files[id].exists and files[id].fileHash = h, after reverted calls too;
\* and an entry of hashToFileId or files, once set, never changes.
C26_IndicesAtomic ==
    /\ IndicesAgree
    /\ [][/\ IndicesAgree'
           /\ \A h \in DOMAIN hashToFileId :
                 hashToFileId[h] # 0 =>
                    (h \in DOMAIN hashToFileId'
                       /\ hashToFileId'[h] = hashToFileId[h])
           /\ \A id \in DOMAIN chainFiles :
                 (id \in DOMAIN chainFiles'
                    /\ chainFiles'[id] = chainFiles[id])]_vars

\* A call has reverted on a contract that holds two records.
C26_Witness ==
    /\ txResult.op = "uploadFile"
    /\ txResult.reverted
    /\ currentFileId = 2
    /\ HashToFileIdAt(FilesAt(2).fileHash) = 2

----------------------------------------------------------------------------
(* Properties of the server's lookup by fingerprint, checked under Spec *)

\* The stored records with this fingerprint.
RecordsWithHash(h) ==
    {i \in 1..Len(fileRecords) : fileRecords[i].fileHash = h}

\* C27: a verification that matches, by content or by fingerprint string,
\* answers with the metadata of a stored record with that fingerprint that
\* no other stored record with the fingerprint precedes in time; so both
\* entry points answer with the same record for the same fingerprint.
C27_EarliestRecordWins ==
    (response.op \in {"verify", "verify-hash"}
        /\ response.status = 200 /\ response.isValid)
    => \E i \in RecordsWithHash(response.data[1].fileHash) :
          /\ response.data = <<MatchData(fileRecords[i])>>
          /\ \A j \in RecordsWithHash(response.data[1].fileHash) :
                j # i => fileRecords[j].uploadTime > fileRecords[i].uploadTime

\* A verification by content has matched a fingerprint that two stored
\* records share.
C27_Witness ==
    /\ response.op = "verify"
    /\ response.status = 200
    /\ response.isValid
    /\ Cardinality(RecordsWithHash(response.data[1].fileHash)) = 2

----------------------------------------------------------------------------
(* Properties of the contract as a mirror, checked under SpecMirror *)

\* C25 as stated: when the same registrations are applied to the server and
\* to the contract, each is accepted by one exactly when it is accepted by
\* the other, and after every registration both hold the same set of
\* fingerprints.  (The registrations sent on are those the server accepted.)
C25_MirrorAgreesWithServer ==
    Len(txLog) = Len(uploadLog) =>
        /\ \A k \in 1..Len(txLog) : ~txLog[k].reverted
        /\ {fileRecords[i].fileHash : i \in 1..Len(fileRecords)}
              = {chainFiles[id].fileHash : id \in DOMAIN chainFiles}

----------------------------------------------------------------------------
(* Properties of the wallet connection, checked under SpecWallet *)

\* C28 as stated: in every interleaving of checkConnection, connectWallet
\* and disconnectWallet, isConnected is true exactly when account is not
\* null, and networkInfo is null whenever isConnected is false; a call still
\* waiting for the provider when disconnectWallet runs sets nothing
\* afterwards.
C28_WalletStateConsistent ==
    /\ isConnected <=> account # <<>>
    /\ ~isConnected => networkInfo = <<>>

----------------------------------------------------------------------------
(* Properties of the upload form, checked under SpecForm and SpecFormLive *)

\* C29 as stated: whenever uploadResult is not null it describes the file
\* now selected, also when another file was selected while the upload was
\* in flight.
C29_ResultDescribesSelectedFile ==
    uploadResult # <<>> =>
        /\ selectedFile # <<>>
        /\ uploadResult[1].originalName = selectedFile[1].name
        /\ uploadResult[1].fileHash = Sha256Hex(selectedFile[1].content)

\* C30: activeStep stays within 0..4; it becomes 4 only in the step where
\* the server's success arrives and uploadResult is set; a step in which the
\* upload fails sets step 0 and error, leaves uploadResult as it was and ends
\* the upload; and every started upload finishes: isUploading returns to
\* false.
C30_UploadFinishes ==
    /\ [](activeStep \in 0..4)
    /\ [][(activeStep' = 4 /\ activeStep # 4)
            => /\ uploadCall # <<>>
               /\ uploadCall[1].pc = "post"
               /\ uploadResult' =
                     <<UploadResultOf(uploadCall[1].file,
                                      uploadCall[1].description)>>]_vars
    /\ [][(uploadCall # <<>> /\ uploadCall' = <<>>
             /\ uploadCall[1].pc # "final")
            => /\ activeStep' = 0
               /\ uploadError' # <<>>
               /\ uploadResult' = uploadResult
               /\ ~isUploading']_vars
    /\ isUploading ~> ~isUploading

\* An upload has failed while the result of an earlier one is shown.
C30_Witness ==
    /\ uploadError # <<>>
    /\ uploadResult # <<>>
    /\ activeStep = 0
    /\ ~isUploading
    /\ formStarted = 2

====
